---------------------------- MODULE Spec2Model ----------------------------
(***************************************************************************)
(* Model of the content-delivery access layer of the gallery sample:       *)
(* the token cache and auth resolver (getAuthValue / getBearerAuth /       *)
(* isAuthNeeded), the client factory (getClient, both variants of          *)
(* server-config-utils.js), the pre-request hook (beforeSendCallback) and   *)
(* the proxy API route (handler / handleContentRequest, the second file of *)
(* src/pages/_app.jsx, lines 24-99), the page data functions of           *)
(* src/scripts/services.js with getImageUrl of src/scripts/utils.js, and   *)
(* the image grid page (ImageGridPage, src/pages/category/[id].jsx).       *)
(* src/scripts/server-config-utils.js holds two variants of the module:    *)
(* lines 1-197 (authorization, a new client per getClient call) and lines  *)
(* 199-243 (no authorization, clientInstance).  A process runs one.        *)
(*                                                                         *)
(* Node runs the code on one thread: every action below is one run of      *)
(* JavaScript between two suspension points (await / promise callback).    *)
(* Each element of Slots is one asynchronous invocation in progress.       *)
(***************************************************************************)
EXTENDS Integers, Sequences, FiniteSets, TLC

(***************************************************************************)
(* Bounds of the model.                                                    *)
(***************************************************************************)
NumSlots == 2          \* asynchronous invocations that may overlap
MaxRequests == 2       \* token-endpoint requests in one behaviour
MaxCalls == 2          \* getClient calls in one behaviour
TickMS == 1000         \* granularity of the clock, in milliseconds
MaxTime == 3000        \* the clock stops advancing here
ExpiresIn == 7000      \* the expires_in of the token endpoint's answers
MaxChunks == 2         \* chunks in the body of an upstream response
MaxStreams == 1        \* proxied requests in progress at once, where bounded
MaxRenditions == 2     \* renditions of an image asset
MaxTaxonomies == 2     \* taxonomies the content server returns
MaxCategories == 3     \* categories over all the taxonomies
MaxMounts == 1         \* ImageGridPage instances constructed in one behaviour
MaxTotalResults == 101 \* the largest totalResults the content server reports

Slots == 1..NumSlots

(***************************************************************************)
(* JavaScript values.  Strings are TLA+ strings; undefined and null are    *)
(* two reserved strings that no configuration or token takes.              *)
(***************************************************************************)
Undefined == "<undefined>"
JsNull == "<null>"
NoHeader == "<no authorization header>"

\* JavaScript truthiness of a string-or-undefined-or-null value
Truthy(v) == v # Undefined /\ v # JsNull /\ v # ""

\* Date objects: null, a valid Date (ms since the epoch), or an Invalid Date
\* (new Date(NaN)), whose getTime() is NaN.
NullDate == [isDate |-> FALSE, nan |-> FALSE, ms |-> 0]
InvalidDate == [isDate |-> TRUE, nan |-> TRUE, ms |-> 0]
DateOf(ms) == [isDate |-> TRUE, nan |-> FALSE, ms |-> ms]

\* !globalAuthExpiry : only null is falsy, every Date object is truthy
DateTruthy(d) == d.isDate

\* (d.getTime() - delta) > t ; any comparison with NaN is false
GetTimeMinusGreater(d, delta, t) == ~d.nan /\ (d.ms - delta) > t

\* const FIVE_SECONDS_MS = 5000;
FIVE_SECONDS_MS == 5000

(***************************************************************************)
(* URLs are sequences of characters, so that String.prototype.replace and  *)
(* startsWith can be computed on them.                                     *)
(***************************************************************************)
StartsWith(s, p) == Len(s) >= Len(p) /\ SubSeq(s, 1, Len(p)) = p

\* s.indexOf(p) + 1: the position of the first occurrence of p in s, 0 if none
IndexOf(s, p) ==
    LET hits == {i \in 1..(Len(s) - Len(p) + 1) : SubSeq(s, i, i + Len(p) - 1) = p}
    IN IF hits = {} THEN 0 ELSE CHOOSE i \in hits : \A j \in hits : i <= j

\* a variant that replaces every occurrence, as a /p/g pattern would
RECURSIVE ReplaceEvery(_, _, _)
ReplaceEvery(s, p, r) ==
    IF IndexOf(s, p) = 0 THEN s
    ELSE SubSeq(s, 1, IndexOf(s, p) - 1) \o r
         \o ReplaceEvery(SubSeq(s, IndexOf(s, p) + Len(p), Len(s)), p, r)

\* s.replace(p, r) with a string pattern p: only the first occurrence of p is
\* replaced (r holds no $ pattern)
Replace(s, p, r) ==
    IF IndexOf(s, p) = 0 THEN s
    ELSE SubSeq(s, 1, IndexOf(s, p) - 1) \o r
         \o SubSeq(s, IndexOf(s, p) + Len(p), Len(s))

(***************************************************************************)
(* Configuration values the environment may hold.                          *)
(***************************************************************************)
StaticAuth == "Basic c3RhdGlj"
ClientId == "client1"
AuthChoices == {Undefined, "", StaticAuth}
ClientIdChoices == {Undefined, ClientId}
ServerUrl == "https://upstream.example"
Origin == "https://app.example/"

\* values of NEXT_PUBLIC_SERVER_URL (next.config.js line 66: the SERVER_URL of
\* the environment): https://h, http://h and https://h/
HttpsBase == <<"h", "t", "t", "p", "s", ":", "/", "/", "h">>
HttpBase == <<"h", "t", "t", "p", ":", "/", "/", "h">>
SlashBase == <<"h", "t", "t", "p", "s", ":", "/", "/", "h", "/">>
ServerUrlChoices == {HttpsBase, HttpBase, SlashBase}

(***************************************************************************)
(* Requests to the proxy API route.  The route is a page under pages/api   *)
(* (the import of _app.jsx line 30 climbs to src from pages/api/<dir>), so *)
(* every URL it is handed starts with /api/.                               *)
(***************************************************************************)
Methods == {"GET", "POST"}

\* /api/f?x=1, /api/f/api/g, /api/f?u=/api/g and /api/
InboundUrls ==
    {<<"/", "a", "p", "i", "/", "f", "?", "x", "=", "1">>,
     <<"/", "a", "p", "i", "/", "f", "/", "a", "p", "i", "/", "g">>,
     <<"/", "a", "p", "i", "/", "f", "?", "u", "=", "/", "a", "p", "i", "/", "g">>,
     <<"/", "a", "p", "i", "/">>}

\* the one URL requested where the URL is not what is examined
PlainUrl == <<"/", "a", "p", "i", "/", "f", "?", "x", "=", "1">>

\* What the upstream server may answer: a status, headers (name, value pairs in
\* the order received) and a body that arrives in chunks.
Chunks == {"b1", "b2"}

RECURSIVE SeqsUpTo(_, _)
SeqsUpTo(S, n) ==
    IF n = 0 THEN {<<>>}
    ELSE SeqsUpTo(S, n - 1)
         \cup {Append(q, x) : q \in {t \in SeqsUpTo(S, n - 1) : Len(t) = n - 1}, x \in S}

ImageHeaders == <<<<"content-type", "image/jpeg">>, <<"cache-control", "max-age=60">>>>
ErrorHeaders == <<<<"content-type", "text/plain">>>>

UpstreamResponses ==
    {[statusCode |-> 200, headers |-> ImageHeaders, body |-> b] : b \in SeqsUpTo(Chunks, MaxChunks)}
    \cup {[statusCode |-> 404, headers |-> ErrorHeaders, body |-> b] : b \in SeqsUpTo(Chunks, MaxChunks)}

\* the one answer given where the answer is not what is examined
PlainResponse == [statusCode |-> 200, headers |-> ImageHeaders, body |-> <<"b1">>]

VARIABLES
    variant,            \* which server-config-utils module the process runs
    AUTH,               \* process.env.AUTH
    CLIENT_ID,          \* process.env.CLIENT_ID
    IS_BROWSER,         \* process.env.IS_BROWSER (truthy or not)
    now,                \* the clock: Date.now() / new Date().getTime()
    globalAuthValue,    \* module variable, line 45
    globalAuthExpiry,   \* module variable, line 46
    tokenRequests,      \* POSTs made to the token endpoint so far
    pc,                 \* per slot: where the invocation is suspended
    origin,             \* per slot: who started the invocation
    reqId,              \* per slot: number of the token request in flight
    response,           \* per slot: the token endpoint's response, once received
    result,             \* per slot: value getAuthValue returned
    entry,              \* per slot: the cache as it was when the refresh began,
                        \* and whether no other refresh was in flight then
    authorization,      \* per slot: param.headers.authorization of the request
    calls,              \* number of getClient calls made so far
    clients,            \* number of SDK clients constructed so far
    clientInstance,     \* module variable, line 216 (0 is null)
    got,                \* the client the latest getClient call returned
    NEXT_PUBLIC_SERVER_URL, \* process.env.NEXT_PUBLIC_SERVER_URL
    method,             \* per slot: req.method of the proxied request
    url,                \* per slot: req.url of the proxied request
    outbound,           \* per slot: the request made to the upstream server
    upstream,           \* per slot: proxyResponse, the upstream server's answer
    res,                \* per slot: what has been written to res
    asset,              \* the asset handed to getSourceSet
    urls,               \* the object getSourceSet builds and returns
    op,                 \* the exported function of services.js in progress
    phase,              \* where its promise chain is suspended
    catPromises,        \* the promises array of lines 150-159
    itemPromises,       \* the promises array of lines 180-210
    cats,               \* the categories array handed to addItemsToCategories
    added,              \* the array addItemsToCategories resolved with
    outcome,            \* the promise the exported function returned
    logged,             \* messages logError has written during this call
    data,               \* props.data of ImageGridPage: items.length, totalResults
    instances,          \* number of ImageGridPage instances constructed so far
    mounted,            \* the instances that are mounted
    currentImage,       \* per instance: this.state.currentImage
    view,               \* per instance: what render() last produced
    keydown,            \* the document's 'keydown' listeners, in order
    functions,          \* function objects created by lines 48 and 60 so far
    modalOpen           \* body has the class modal-open

envVars == <<variant, AUTH, CLIENT_ID, IS_BROWSER, NEXT_PUBLIC_SERVER_URL>>
proxyVars == <<method, url, outbound, upstream, res>>
imageVars == <<asset, urls>>
pageVars == <<op, phase, catPromises, itemPromises, cats, added, outcome, logged>>
cacheVars == <<globalAuthValue, globalAuthExpiry>>
slotVars == <<pc, origin, reqId, response, result, entry, authorization>>
clientVars == <<calls, clients, clientInstance, got>>
gridVars == <<data, instances, mounted, currentImage, view, keydown, functions,
             modalOpen>>
vars == <<variant, AUTH, CLIENT_ID, IS_BROWSER, now, globalAuthValue,
          globalAuthExpiry, tokenRequests, pc, origin, reqId, response, result,
          entry, authorization, calls, clients, clientInstance, got,
          NEXT_PUBLIC_SERVER_URL, method, url, outbound, upstream, res,
          asset, urls, op, phase, catPromises, itemPromises, cats, added,
          outcome, logged, data, instances, mounted, currentImage, view,
          keydown, functions, modalOpen>>

NoResponse == [status |-> 0, body |-> "none", expires_in |-> 0]
NoEntry == [value |-> "", expiry |-> NullDate, solo |-> FALSE]

NoRequest == [made |-> FALSE, url |-> <<>>, authorization |-> NoHeader,
              secure |-> FALSE]
NoUpstream == [statusCode |-> 0, headers |-> <<>>, body |-> <<>>]
NoRes == [headWritten |-> FALSE, statusCode |-> 0, headers |-> <<>>,
          body |-> <<>>, ended |-> FALSE]

\* no asset yet, and the urls object before getSourceSet has run
NoAsset == [id |-> 0, hasRenditions |-> FALSE, renditions |-> <<>>,
            native |-> <<>>, width |-> 0, height |-> 0]
NoUrls == [computed |-> FALSE, srcset |-> <<>>, jpgSrcset |-> <<>>,
           named |-> <<>>, native |-> <<>>, width |-> 0, height |-> 0]

\* the module variables after the module is loaded; nothing is in progress
Loaded ==
    /\ now = 0
    /\ globalAuthValue = ""
    /\ globalAuthExpiry = NullDate
    /\ tokenRequests = 0
    /\ pc = [c \in Slots |-> "idle"]
    /\ origin = [c \in Slots |-> "none"]
    /\ reqId = [c \in Slots |-> 0]
    /\ response = [c \in Slots |-> NoResponse]
    /\ result = [c \in Slots |-> Undefined]
    /\ entry = [c \in Slots |-> NoEntry]
    /\ authorization = [c \in Slots |-> NoHeader]
    /\ calls = 0
    /\ clients = 0
    /\ clientInstance = 0
    /\ got = 0
    /\ method = [c \in Slots |-> "none"]
    /\ url = [c \in Slots |-> <<>>]
    /\ outbound = [c \in Slots |-> NoRequest]
    /\ upstream = [c \in Slots |-> NoUpstream]
    /\ res = [c \in Slots |-> NoRes]

\* no asset is being looked at
NoImage == asset = NoAsset /\ urls = NoUrls

\* a promise not created yet; value, for a resolved promise that is not
\* undefined, is in categories or in totalResults and items
NoOutcome == [state |-> "none", undefined |-> FALSE, categories |-> <<>>,
              totalResults |-> 0, items |-> <<>>]

\* no exported function of services.js is in progress
NoPage ==
    /\ op = "none"
    /\ phase = "idle"
    /\ catPromises = <<>>
    /\ itemPromises = <<>>
    /\ cats = <<>>
    /\ added = <<>>
    /\ outcome = NoOutcome
    /\ logged = 0

\* no page data, and no ImageGridPage has been constructed
NoGrid ==
    /\ data = [length |-> 0, totalResults |-> 0]
    /\ instances = 0
    /\ mounted = {}
    /\ currentImage = [i \in 1..MaxMounts |-> -1]
    /\ view = [i \in 1..MaxMounts |-> "none"]
    /\ keydown = <<>>
    /\ functions = 0
    /\ modalOpen = FALSE

Init ==
    /\ variant \in {"auth", "memoized"}
    /\ AUTH \in AuthChoices
    /\ CLIENT_ID \in ClientIdChoices
    /\ IS_BROWSER \in BOOLEAN
    /\ NEXT_PUBLIC_SERVER_URL = HttpsBase
    /\ Loaded
    /\ NoImage
    /\ NoPage
    /\ NoGrid

(***************************************************************************)
(* The token endpoint (POST <IDCS_URL>/oauth2/v1/token).  The k-th request *)
(* that is answered with a token gets a token of its own, so that a stale  *)
(* credential can be told from a new one.                                  *)
(***************************************************************************)
Digit == <<"0", "1", "2", "3", "4", "5", "6", "7", "8", "9">>

RECURSIVE IntToStr(_)
IntToStr(n) == IF n < 10 THEN Digit[n + 1]
               ELSE IntToStr(n \div 10) \o Digit[(n % 10) + 1]

AccessToken(k) == "tok" \o IntToStr(k)

\* What fetch() may resolve to.  fetch resolves for every HTTP status; the body
\* is a token document, a JSON error document, or not JSON at all.
Responses ==
    {[status |-> 200, body |-> "token", expires_in |-> ExpiresIn],
     [status |-> 401, body |-> "errorJson", expires_in |-> 0],
     [status |-> 502, body |-> "notJson", expires_in |-> 0]}

(***************************************************************************)
(* isAuthNeeded, lines 51-56                                               *)
(***************************************************************************)
\* a variant that forgets the OAuth client id
isAuthNeededAuthOnly == IF Truthy(AUTH) THEN TRUE ELSE FALSE

isAuthNeeded == IF Truthy(AUTH) \/ Truthy(CLIENT_ID) THEN TRUE ELSE FALSE

(***************************************************************************)
(* getAuthValue, lines 103-132                                             *)
(***************************************************************************)
\* a variant that tests CLIENT_ID before AUTH
AuthBranchClientIdFirst == IF Truthy(CLIENT_ID) THEN "oauth"
                           ELSE IF Truthy(AUTH) THEN "static"
                           ELSE "none"

\* the if / else if / else of lines 104, 107, 125
AuthBranch == IF Truthy(AUTH) THEN "static"
              ELSE IF Truthy(CLIENT_ID) THEN "oauth"
              ELSE "none"

\* a variant with a single-flight guard: no refresh while one is in flight
NeedsRefreshSingleFlight ==
    /\ \A d \in Slots : pc[d] \notin {"fetch", "json"}
    /\ \/ ~Truthy(globalAuthValue)
       \/ ~DateTruthy(globalAuthExpiry)
       \/ GetTimeMinusGreater(globalAuthExpiry, FIVE_SECONDS_MS, now)

\* a variant that looks at the expiry only, not at the credential
NeedsRefreshExpiryOnly ==
    \/ ~DateTruthy(globalAuthExpiry)
    \/ GetTimeMinusGreater(globalAuthExpiry, FIVE_SECONDS_MS, now)

\* the condition of lines 113-114, with currentDate = new Date() (line 110)
NeedsRefresh ==
    \/ ~Truthy(globalAuthValue)
    \/ ~DateTruthy(globalAuthExpiry)
    \/ GetTimeMinusGreater(globalAuthExpiry, FIVE_SECONDS_MS, now)

\* line 115: the value the cache holds while the token request is in flight
RefreshPlaceholder == ""

\* getBearerAuth lines 91-97: what it returns for a parsed response body
authHeaderValue(c) ==
    "Bearer " \o (IF response[c].body = "token" THEN AccessToken(reqId[c])
                  ELSE "undefined")

\* lines 121-123: Date.now() + authDetails.expiry, made a Date; undefined
\* added to a number is NaN
NewExpiry(c) ==
    IF response[c].body = "token" THEN DateOf(now + response[c].expires_in)
    ELSE InvalidDate

\* getAuthValue from its entry to its first suspension point (the await of
\* line 116, which runs getBearerAuth up to its await of fetch, line 79) or,
\* when nothing is awaited, to its return (line 131).
Enter(c, who) ==
    /\ variant = "auth"
    /\ pc[c] = "idle"
    /\ \A d \in Slots : d < c => pc[d] # "idle"   \* slots are interchangeable
    /\ origin' = [origin EXCEPT ![c] = who]
    /\ CASE AuthBranch = "static" ->
              /\ globalAuthValue' = AUTH
              /\ UNCHANGED <<globalAuthExpiry, tokenRequests, reqId, entry>>
              /\ result' = [result EXCEPT ![c] = AUTH]
              /\ pc' = [pc EXCEPT ![c] = "returned"]
         [] AuthBranch = "oauth" /\ NeedsRefresh ->
              /\ tokenRequests < MaxRequests
              /\ globalAuthValue' = RefreshPlaceholder
              /\ UNCHANGED <<globalAuthExpiry, result>>
              /\ entry' = [entry EXCEPT ![c] =
                     [value |-> globalAuthValue, expiry |-> globalAuthExpiry,
                      solo |-> \A d \in Slots : pc[d] \notin {"fetch", "json"}]]
              /\ tokenRequests' = tokenRequests + 1
              /\ reqId' = [reqId EXCEPT ![c] = tokenRequests + 1]
              /\ pc' = [pc EXCEPT ![c] = "fetch"]
         [] AuthBranch = "oauth" /\ ~NeedsRefresh ->
              /\ UNCHANGED <<globalAuthValue, globalAuthExpiry, tokenRequests,
                             reqId, entry>>
              /\ result' = [result EXCEPT ![c] = globalAuthValue]
              /\ pc' = [pc EXCEPT ![c] = "returned"]
         [] AuthBranch = "none" ->
              /\ globalAuthValue' = JsNull
              /\ globalAuthExpiry' = NullDate
              /\ UNCHANGED <<tokenRequests, reqId, entry>>
              /\ result' = [result EXCEPT ![c] = JsNull]
              /\ pc' = [pc EXCEPT ![c] = "returned"]
    /\ UNCHANGED <<envVars, gridVars, now, response, authorization, clientVars>>

\* A caller of the exported function.  getAuthValue runs on the server only
\* (comment of lines 64-65: it uses node-fetch).
getAuthValue(c) ==
    ~IS_BROWSER /\ Enter(c, "direct") /\ UNCHANGED <<proxyVars, imageVars, pageVars>>

\* line 79: fetch resolves with a response, whatever its status
FetchResolve(c, r) ==
    /\ pc[c] = "fetch"
    /\ response' = [response EXCEPT ![c] = r]
    /\ pc' = [pc EXCEPT ![c] = "json"]
    /\ UNCHANGED <<envVars, gridVars, imageVars, pageVars, proxyVars, now, cacheVars, tokenRequests, origin, reqId,
                   result, entry, authorization, clientVars>>

\* what a rejection leaves of the invocation: getBearerAuth and getAuthValue
\* reject with the error, nothing after line 116 runs
Rejected(c) ==
    /\ pc' = [pc EXCEPT ![c] = "rejected"]
    /\ reqId' = [reqId EXCEPT ![c] = 0]
    /\ response' = [response EXCEPT ![c] = NoResponse]
    /\ entry' = [entry EXCEPT ![c] = NoEntry]
    /\ UNCHANGED <<envVars, gridVars, imageVars, pageVars, proxyVars, now, cacheVars, tokenRequests, origin, result,
                   authorization, clientVars>>

\* line 79: fetch rejects (network error)
FetchReject(c) ==
    /\ pc[c] = "fetch"
    /\ Rejected(c)

\* line 87: response.json() rejects, the body is not JSON
JsonReject(c) ==
    /\ pc[c] = "json"
    /\ response[c].body = "notJson"
    /\ Rejected(c)

\* line 87 resolves: lines 91-97, then lines 117-123 and the return of line
\* 131 run without suspension
JsonResolve(c) ==
    /\ pc[c] = "json"
    /\ response[c].body # "notJson"
    /\ globalAuthValue' = authHeaderValue(c)
    /\ globalAuthExpiry' = NewExpiry(c)
    /\ result' = [result EXCEPT ![c] = globalAuthValue']
    /\ pc' = [pc EXCEPT ![c] = "returned"]
    /\ reqId' = [reqId EXCEPT ![c] = 0]
    /\ response' = [response EXCEPT ![c] = NoResponse]
    /\ entry' = [entry EXCEPT ![c] = NoEntry]
    /\ UNCHANGED <<envVars, gridVars, imageVars, pageVars, proxyVars, now, tokenRequests, origin, authorization,
                   clientVars>>

(***************************************************************************)
(* getClient.  A client is the serverconfig its constructor was given;     *)
(* the clients of one process are numbered 1..clients in the order of      *)
(* their construction, and all were given the same serverconfig.           *)
(***************************************************************************)
\* a variant that attaches the hook in the browser too
ServerConfigHookInBrowser ==
    [contentServer |-> IF isAuthNeeded /\ IS_BROWSER THEN Origin ELSE ServerUrl,
     beforeSend |-> isAuthNeeded]

\* lines 172-187: the serverconfig.  Both constructors of lines 193-196 are
\* handed the same serverconfig; contentVersion and channelToken are copied
\* from the environment and read by no code of this module.
ServerConfig ==
    [contentServer |-> IF isAuthNeeded /\ IS_BROWSER THEN Origin ELSE ServerUrl,
     beforeSend |-> isAuthNeeded /\ ~IS_BROWSER]

\* lines 231-235
ServerConfigMemoized == [contentServer |-> ServerUrl, beforeSend |-> FALSE]

\* the serverconfig of the clients of this process
ClientConfig == IF variant = "auth" THEN ServerConfig ELSE ServerConfigMemoized

\* lines 162-197, what a call does
getClientCall ==
    /\ variant = "auth"
    /\ calls < MaxCalls
    /\ calls' = calls + 1
    /\ clients' = clients + 1
    /\ got' = clients + 1
    /\ UNCHANGED clientInstance

\* lines 162-197, a call on its own
getClient ==
    /\ getClientCall
    /\ UNCHANGED <<envVars, gridVars, imageVars, pageVars, proxyVars, now, cacheVars,
                   tokenRequests, slotVars>>

\* a variant without the test of line 222
MustConstructAlways == TRUE

\* line 222
MustConstruct == clientInstance = 0

\* lines 221-243, what a call does
getClientMemoizedCall ==
    /\ variant = "memoized"
    /\ calls < MaxCalls
    /\ calls' = calls + 1
    /\ IF MustConstruct
       THEN /\ clients' = clients + 1
            /\ clientInstance' = clients + 1
       ELSE UNCHANGED <<clients, clientInstance>>
    /\ got' = clientInstance'

\* lines 221-243, a call on its own
getClientMemoized ==
    /\ getClientMemoizedCall
    /\ UNCHANGED <<envVars, gridVars, imageVars, pageVars, proxyVars, now, cacheVars,
                   tokenRequests, slotVars>>

(***************************************************************************)
(* A REST call made through a client.  The SDK calls the client's          *)
(* beforeSend, if it has one, just before it makes the request (comments   *)
(* of lines 28-31 and 135-143), and sends once the returned promise        *)
(* resolves.                                                               *)
(***************************************************************************)
\* beforeSendCallback, lines 144-147: the hook calls getAuthValue()
beforeSendCallback(c) ==
    /\ clients > 0
    /\ ClientConfig.beforeSend
    /\ Enter(c, "hook")
    /\ UNCHANGED <<proxyVars, imageVars, pageVars>>

\* a variant that reads the module's cache instead of the value resolved for
\* this request
HookHeaderFromCache(c) == globalAuthValue

\* line 149: the value put in param.headers.authorization
HookHeader(c) == result[c]

\* lines 147-151: getAuthValue's promise fulfilled; the header is set, the
\* hook's promise resolves and the request goes out with param.headers as
\* they are now
HookThen(c) ==
    /\ pc[c] = "returned"
    /\ origin[c] = "hook"
    /\ authorization' = [authorization EXCEPT ![c] = HookHeader(c)]
    /\ pc' = [pc EXCEPT ![c] = "sent"]
    /\ UNCHANGED <<envVars, gridVars, imageVars, pageVars, proxyVars, now, cacheVars, tokenRequests, origin, reqId,
                   response, result, entry, clientVars>>

\* lines 145-155: the state of the promise beforeSendCallback returned for the
\* request of slot c.  resolve(true) runs in the callback of line 147; the
\* reject of line 153 is in the catch of a try whose body, the call of an
\* async function and of .then, never throws: a rejection of getAuthValue's
\* promise runs neither.
HookPromise(c) == IF pc[c] = "sent" THEN "resolved" ELSE "pending"

\* lines 185-187 not taken: the client has no beforeSend, the request goes
\* out as the SDK built it
SendPlain(c) ==
    /\ clients > 0
    /\ ~ClientConfig.beforeSend
    /\ pc[c] = "idle"
    /\ \A d \in Slots : d < c => pc[d] # "idle"
    /\ origin' = [origin EXCEPT ![c] = "plain"]
    /\ pc' = [pc EXCEPT ![c] = "sent"]
    /\ UNCHANGED <<envVars, gridVars, imageVars, pageVars, proxyVars, now, cacheVars, tokenRequests, reqId, response,
                   result, entry, authorization, clientVars>>

(***************************************************************************)
(* The proxy API route, src/pages/_app.jsx lines 24-99.  A request is at   *)
(* "forwarding" once the request to the upstream server is made, at        *)
(* "streaming" once writeProxyContent has written the head, at "done" once *)
(* res is ended, at "dropped" when handleContentRequest returned at line   *)
(* 38, and at "failed" when the upstream request emitted an error.         *)
(***************************************************************************)
\* a variant that lets POST through as well
IsGetOrPost(m) == m \in {"GET", "POST"}

\* line 37, negated
IsGet(m) == m = "GET"

\* line 43
NewURL(u) == Replace(u, <<"/", "a", "p", "i", "/">>, <<"/">>)

\* line 45
OceUrl(u) == NEXT_PUBLIC_SERVER_URL \o NewURL(u)

\* lines 47-51 and 62-69: the request made to the upstream server; https or
\* http is chosen by the URL's first characters
OutboundRequest(u, authValue) ==
    [made |-> TRUE,
     url |-> OceUrl(u),
     authorization |-> IF Truthy(authValue) THEN authValue ELSE NoHeader,
     secure |-> StartsWith(OceUrl(u), <<"h", "t", "t", "p", "s">>)]

\* lines 35-70, for the request of slot c with method m and URL u
handleContentRequest(c, m, u, authValue) ==
    IF ~IsGet(m)
    THEN /\ pc' = [pc EXCEPT ![c] = "dropped"]
         /\ UNCHANGED outbound
    ELSE /\ pc' = [pc EXCEPT ![c] = "forwarding"]
         /\ outbound' = [outbound EXCEPT ![c] = OutboundRequest(u, authValue)]

\* lines 87-99 up to the first suspension: with authorization needed,
\* getAuthValue is called (whatever the method) and the rest waits for its
\* promise; otherwise handleContentRequest runs at once
handler(c, m, u) ==
    /\ variant = "auth"
    /\ ~IS_BROWSER
    /\ method' = [method EXCEPT ![c] = m]
    /\ url' = [url EXCEPT ![c] = u]
    /\ UNCHANGED <<upstream, res, imageVars, pageVars>>
    /\ IF isAuthNeeded
       THEN /\ Enter(c, "handler")
            /\ UNCHANGED outbound
       ELSE /\ pc[c] = "idle"
            /\ \A d \in Slots : d < c => pc[d] # "idle"
            /\ origin' = [origin EXCEPT ![c] = "handler"]
            /\ handleContentRequest(c, m, u, "")
            /\ UNCHANGED <<envVars, gridVars, imageVars, pageVars, now, cacheVars, tokenRequests, reqId,
                           response, result, entry, authorization, clientVars>>

\* lines 92-94: getAuthValue's promise fulfilled
HandlerThen(c) ==
    /\ pc[c] = "returned"
    /\ origin[c] = "handler"
    /\ handleContentRequest(c, method[c], url[c], result[c])
    /\ UNCHANGED <<envVars, gridVars, imageVars, pageVars, now, cacheVars, tokenRequests, origin, reqId,
                   response, result, entry, authorization, clientVars,
                   method, url, upstream, res>>

\* a variant that answers 200 whatever the upstream status
WriteHeadOk(r) ==
    [headWritten |-> TRUE, statusCode |-> 200, headers |-> r.headers,
     body |-> <<>>, ended |-> FALSE]

\* line 55: res.writeHead(proxyResponse.statusCode, proxyResponse.headers)
WriteHead(r) ==
    [headWritten |-> TRUE, statusCode |-> r.statusCode, headers |-> r.headers,
     body |-> <<>>, ended |-> FALSE]

\* lines 54-59, the callback of lines 62-64: the upstream server answered r
writeProxyContent(c, r) ==
    /\ pc[c] = "forwarding"
    /\ upstream' = [upstream EXCEPT ![c] = r]
    /\ res' = [res EXCEPT ![c] = WriteHead(r)]
    /\ pc' = [pc EXCEPT ![c] = "streaming"]
    /\ UNCHANGED <<envVars, gridVars, imageVars, pageVars, now, cacheVars, tokenRequests, origin, reqId,
                   response, result, entry, authorization, clientVars,
                   method, url, outbound>>

\* lines 56-58, pipe: the next chunk of the upstream body is written to res
PipeData(c) ==
    /\ pc[c] = "streaming"
    /\ Len(res[c].body) < Len(upstream[c].body)
    /\ res' = [res EXCEPT ![c].body =
                  Append(@, upstream[c].body[Len(res[c].body) + 1])]
    /\ UNCHANGED <<envVars, gridVars, imageVars, pageVars, now, cacheVars, tokenRequests, slotVars, clientVars,
                   method, url, outbound, upstream>>

\* lines 56-58, pipe with end: true: the upstream body ended, res is ended
PipeEnd(c) ==
    /\ pc[c] = "streaming"
    /\ Len(res[c].body) = Len(upstream[c].body)
    /\ res' = [res EXCEPT ![c].ended = TRUE]
    /\ pc' = [pc EXCEPT ![c] = "done"]
    /\ UNCHANGED <<envVars, gridVars, imageVars, pageVars, now, cacheVars, tokenRequests, origin, reqId,
                   response, result, entry, authorization, clientVars,
                   method, url, outbound, upstream>>

\* lines 62-64: the upstream request fails (connection refused, reset, name
\* not resolved).  No 'error' listener is attached to proxy: the callback never
\* runs and nothing is written to res.
ProxyError(c) ==
    /\ pc[c] = "forwarding"
    /\ pc' = [pc EXCEPT ![c] = "failed"]
    /\ UNCHANGED <<envVars, gridVars, imageVars, pageVars, now, cacheVars, tokenRequests, origin, reqId,
                   response, result, entry, authorization, clientVars,
                   proxyVars>>

\* the invocation is over and forgotten; the slot can hold another one
Release(c) ==
    /\ pc[c] \in {"returned", "rejected", "sent", "dropped", "done", "failed",
                 "unrouted"}
    /\ origin[c] \in {"hook", "handler"} => pc[c] # "returned"
    /\ pc' = [pc EXCEPT ![c] = "idle"]
    /\ origin' = [origin EXCEPT ![c] = "none"]
    /\ result' = [result EXCEPT ![c] = Undefined]
    /\ authorization' = [authorization EXCEPT ![c] = NoHeader]
    /\ method' = [method EXCEPT ![c] = "none"]
    /\ url' = [url EXCEPT ![c] = <<>>]
    /\ outbound' = [outbound EXCEPT ![c] = NoRequest]
    /\ upstream' = [upstream EXCEPT ![c] = NoUpstream]
    /\ res' = [res EXCEPT ![c] = NoRes]
    /\ UNCHANGED <<envVars, gridVars, imageVars, pageVars, now, cacheVars, tokenRequests, reqId, response,
                   entry, clientVars>>

\* The clock advances between any two runs of JavaScript.
Tick ==
    /\ now + TickMS <= MaxTime
    /\ now' = now + TickMS
    /\ UNCHANGED <<envVars, gridVars, imageVars, pageVars, proxyVars, cacheVars, tokenRequests, slotVars, clientVars>>

Next ==
    \/ Tick
    \/ \E c \in Slots : getAuthValue(c)
    \/ \E c \in Slots, r \in Responses : FetchResolve(c, r)
    \/ \E c \in Slots : FetchReject(c)
    \/ \E c \in Slots : JsonReject(c)
    \/ \E c \in Slots : JsonResolve(c)
    \/ getClient
    \/ getClientMemoized
    \/ \E c \in Slots : beforeSendCallback(c)
    \/ \E c \in Slots : HookThen(c)
    \/ \E c \in Slots : SendPlain(c)
    \/ \E c \in Slots : Release(c)

Spec == Init /\ [][Next]_vars

(***************************************************************************)
(* The proxy route with the token cache behind it: requests of both        *)
(* methods, in every configuration of AUTH and CLIENT_ID.                  *)
(***************************************************************************)
InitProxy ==
    /\ variant = "auth"
    /\ AUTH \in AuthChoices
    /\ CLIENT_ID \in ClientIdChoices
    /\ IS_BROWSER = FALSE
    /\ NEXT_PUBLIC_SERVER_URL = HttpsBase
    /\ Loaded
    /\ NoImage
    /\ NoPage
    /\ NoGrid

NextProxy ==
    \/ Tick
    \/ \E c \in Slots, m \in Methods : handler(c, m, PlainUrl)
    \/ \E c \in Slots, r \in Responses : FetchResolve(c, r)
    \/ \E c \in Slots : FetchReject(c)
    \/ \E c \in Slots : JsonReject(c)
    \/ \E c \in Slots : JsonResolve(c)
    \/ \E c \in Slots : HandlerThen(c)
    \/ \E c \in Slots : writeProxyContent(c, PlainResponse)
    \/ \E c \in Slots : PipeData(c)
    \/ \E c \in Slots : PipeEnd(c)
    \/ \E c \in Slots : ProxyError(c)
    \/ \E c \in Slots : Release(c)

SpecProxy == InitProxy /\ [][NextProxy]_vars

(***************************************************************************)
(* The token cache alone, with a token endpoint that answers every request *)
(* with a token: callers of getAuthValue in a process configured with      *)
(* CLIENT_ID, whose refreshes may overlap and complete in any order.  The  *)
(* endpoint's expires_in is not the same for every token.                  *)
(***************************************************************************)
InitRefresh ==
    /\ variant = "auth"
    /\ AUTH = Undefined
    /\ CLIENT_ID = ClientId
    /\ IS_BROWSER = FALSE
    /\ NEXT_PUBLIC_SERVER_URL = HttpsBase
    /\ Loaded
    /\ NoImage
    /\ NoPage
    /\ NoGrid

NextRefresh ==
    \/ Tick
    \/ \E c \in Slots : getAuthValue(c)
    \/ \E c \in Slots, e \in {ExpiresIn, ExpiresIn + TickMS} :
          FetchResolve(c, [status |-> 200, body |-> "token", expires_in |-> e])
    \/ \E c \in Slots : JsonResolve(c)
    \/ \E c \in Slots : Release(c)

SpecRefresh == InitRefresh /\ [][NextRefresh]_vars

(***************************************************************************)
(* The proxy route as a relay: every inbound URL, every server URL, every  *)
(* upstream answer; the credential, if any, is the static one.             *)
(***************************************************************************)
InitRelay ==
    /\ variant = "auth"
    /\ AUTH \in {Undefined, StaticAuth}
    /\ CLIENT_ID = Undefined
    /\ IS_BROWSER = FALSE
    /\ NEXT_PUBLIC_SERVER_URL \in ServerUrlChoices
    /\ Loaded
    /\ NoImage
    /\ NoPage
    /\ NoGrid

NextRelay ==
    \/ \E c \in Slots, m \in Methods, u \in InboundUrls :
          /\ Cardinality({d \in Slots : pc[d] # "idle"}) < MaxStreams
          /\ handler(c, m, u)
    \/ \E c \in Slots : HandlerThen(c)
    \/ \E c \in Slots, r \in UpstreamResponses : writeProxyContent(c, r)
    \/ \E c \in Slots : PipeData(c)
    \/ \E c \in Slots : PipeEnd(c)
    \/ \E c \in Slots : ProxyError(c)
    \/ \E c \in Slots : Release(c)

SpecRelay == InitRelay /\ [][NextRelay]_vars

(***************************************************************************)
(* Image URLs: getImageUrl (src/scripts/utils.js lines 18-25) and          *)
(* getSourceSet / addRendition (src/scripts/services.js lines 57-96).      *)
(* An asset is what the content server returned for an image: renditions   *)
(* (name, formats, each format with its links and its width), the native   *)
(* link and the metadata.  The hrefs are absolute URLs on the content      *)
(* server.  srcset and jpgSrcset, strings of "url widthw," entries in the  *)
(* code, are kept as the sequences of their entries.                       *)
(***************************************************************************)
\* the content server's own root, as it appears in the hrefs it returns
UpstreamRoot == IF NEXT_PUBLIC_SERVER_URL = HttpBase THEN HttpBase ELSE HttpsBase

RenditionNames == <<"Thumbnail", "Small", "Medium", "Large">>
PathOf == [Thumbnail |-> <<"/", "c", "/", "t">>, Small |-> <<"/", "c", "/", "s">>,
           Medium |-> <<"/", "c", "/", "m">>, Large |-> <<"/", "c", "/", "l">>]
WidthOf == [Thumbnail |-> 150, Small |-> 300, Medium |-> 768, Large |-> 1200]

\* String.prototype.toLowerCase on the rendition names
ToLowerCase(name) ==
    CASE name = "Thumbnail" -> "thumbnail"
      [] name = "Small" -> "small"
      [] name = "Medium" -> "medium"
      [] name = "Large" -> "large"
      [] OTHER -> name

RenditionOf(name) ==
    [name |-> name,
     formats |->
        <<[format |-> "webp", width |-> WidthOf[name],
           links |-> <<[rel |-> "self",
                        href |-> UpstreamRoot \o PathOf[name] \o <<".", "w">>]>>],
          [format |-> "jpg", width |-> WidthOf[name],
           links |-> <<[rel |-> "describedby",
                        href |-> UpstreamRoot \o <<"/", "m", "e", "t", "a">>],
                       [rel |-> "self",
                        href |-> UpstreamRoot \o PathOf[name] \o <<".", "j">>]>>]>>]

\* the image asset with id k and the first n renditions
AssetOf(k, n) ==
    [id |-> k, hasRenditions |-> TRUE,
     renditions |-> [i \in 1..n |-> RenditionOf(RenditionNames[i])],
     native |-> UpstreamRoot \o <<"/", "c", "/", "n">>,
     width |-> 4000, height |-> 3000]

\* the assets getSourceSet may be handed: with 0..MaxRenditions renditions, or
\* without a renditions field
AssetChoices ==
    {AssetOf(1, n) : n \in 0..MaxRenditions}
    \cup {[AssetOf(1, 0) EXCEPT !.hasRenditions = FALSE]}

\* utils.js lines 18-25
getImageUrl(originalUrl) ==
    IF isAuthNeeded
    THEN Replace(originalUrl, NEXT_PUBLIC_SERVER_URL, <<"/", "a", "p", "i">>)
    ELSE originalUrl

\* services.js lines 57-71
addRendition(u, rendition, formatstr) ==
    LET format == SelectSeq(rendition.formats, LAMBDA f : f.format = formatstr)[1]
        self == SelectSeq(format.links, LAMBDA l : l.rel = "self")[1]
        imageUrl == getImageUrl(self.href)
        entry1 == [url |-> imageUrl, width |-> format.width]
    IN IF formatstr = "jpg"
       THEN [u EXCEPT !.named = (ToLowerCase(rendition.name) :> imageUrl) @@ @,
                      !.jpgSrcset = Append(@, entry1)]
       ELSE [u EXCEPT !.srcset = Append(@, entry1)]

\* services.js lines 85-88: the forEach over the renditions
RECURSIVE addRenditions(_, _)
addRenditions(u, renditions) ==
    IF renditions = <<>> THEN u
    ELSE addRenditions(
             addRendition(addRendition(u, Head(renditions), "jpg"),
                          Head(renditions), "webp"),
             Tail(renditions))

\* services.js lines 80-96
GetSourceSet(a) ==
    LET start == [NoUrls EXCEPT !.computed = TRUE]
        withRenditions == IF a.hasRenditions THEN addRenditions(start, a.renditions)
                          ELSE start
    IN [withRenditions EXCEPT
            !.srcset = Append(@, [url |-> a.native, width |-> a.width]),
            !.native = a.native,
            !.width = a.width,
            !.height = a.height]

\* getSourceSet is applied to the asset
getSourceSet ==
    /\ ~urls.computed
    /\ urls' = GetSourceSet(asset)
    /\ UNCHANGED <<envVars, gridVars, now, cacheVars, tokenRequests, slotVars, clientVars,
                   proxyVars, pageVars, asset>>

\* the page that showed the asset is left; another asset is looked at
NextAsset(a) ==
    /\ urls.computed
    /\ asset' = a
    /\ urls' = NoUrls
    /\ UNCHANGED <<envVars, gridVars, now, cacheVars, tokenRequests, slotVars, clientVars,
                   proxyVars, pageVars>>

InitImages ==
    /\ variant = "auth"
    /\ AUTH \in AuthChoices
    /\ CLIENT_ID \in ClientIdChoices
    /\ IS_BROWSER = FALSE
    /\ NEXT_PUBLIC_SERVER_URL \in ServerUrlChoices
    /\ Loaded
    /\ asset \in AssetChoices
    /\ urls = NoUrls
    /\ NoPage
    /\ NoGrid

NextImages ==
    \/ getSourceSet
    \/ \E a \in AssetChoices : NextAsset(a)

SpecImages == InitImages /\ [][NextImages]_vars

(***************************************************************************)
(* The page data functions, src/scripts/services.js lines 111-275.  A REST *)
(* call of the SDK client (getTaxonomies, queryTaxonomyCategories,         *)
(* getItems) returns a promise that the environment resolves with the      *)
(* content server's answer or rejects.  One exported function runs at a    *)
(* time; every action is one run of promise callbacks.                     *)
(***************************************************************************)
\* an item of a getItems answer: the asset, to which lines 237 and 267 add the
\* property renditionUrls
Item(a) == [asset |-> a, renditionUrls |-> NoUrls]

\* what getItems may resolve with (limit 4, so totalResults may be larger than
\* the number of items)
ItemsAnswers ==
    {[items |-> <<Item(AssetOf(1, 1))>>, totalResults |-> 1],
     [items |-> <<Item(AssetOf(2, 0)), Item(AssetOf(1, 1))>>, totalResults |-> 9]}

\* the j-th category of taxonomy t, as queryTaxonomyCategories returns it
Category(t, j) ==
    [id |-> <<t, j>>, hasItems |-> FALSE, items |-> <<>>, totalResults |-> 0]

NoCategory == [id |-> <<0, 0>>, hasItems |-> FALSE, items |-> <<>>, totalResults |-> 0]
NoAnswer == [items |-> <<>>, totalResults |-> 0]

PendingCategories == [state |-> "pending", order |-> 0, value |-> <<>>]
PendingItems == [state |-> "pending", order |-> 0, fetched |-> NoAnswer,
                 value |-> NoCategory]

\* lines 38-48 on an array of arrays of objects
RECURSIVE flattenArray(_)
flattenArray(inArray) ==
    IF inArray = <<>> THEN <<>>
    ELSE Head(inArray) \o flattenArray(Tail(inArray))

\* lines 38-48 on an array of objects: line 44 pushes each one
RECURSIVE flattenObjects(_)
flattenObjects(inArray) ==
    IF inArray = <<>> THEN <<>>
    ELSE <<Head(inArray)>> \o flattenObjects(Tail(inArray))

\* a variant of Promise.all that lists the values in the order of completion
PromiseAllByCompletion(promises) ==
    [k \in DOMAIN promises |->
        promises[CHOOSE i \in DOMAIN promises : promises[i].order = k].value]

\* Promise.all of lines 164 and 213, all promises fulfilled: their values in
\* the order of the promises
PromiseAll(promises) == [i \in DOMAIN promises |-> promises[i].value]

AllFulfilled(promises) == \A i \in DOMAIN promises : promises[i].state = "fulfilled"

\* lines 190-206: the callback of the item fetch of a category
CategoryWithItems(category, topLevelItem) ==
    [category EXCEPT !.hasItems = TRUE,
                     !.items = topLevelItem.items,
                     !.totalResults = topLevelItem.totalResults]

\* lines 236-238 and 266-268: item.renditionUrls = getSourceSet(item)
WithRenditionUrls(items) ==
    [k \in DOMAIN items |->
        [items[k] EXCEPT !.renditionUrls = GetSourceSet(items[k].asset)]]

Resolved(v) == [v EXCEPT !.state = "resolved"]
ResolvedUndefined == [NoOutcome EXCEPT !.state = "resolved", !.undefined = TRUE]
RejectedOutcome == [NoOutcome EXCEPT !.state = "rejected"]

\* what leaves the variables of the other parts alone
PageFrame == UNCHANGED <<envVars, gridVars, now, cacheVars, tokenRequests, slotVars,
                         proxyVars, imageVars>>

\* lines 225-228 and 144-146: getHomePageData gets the client and calls
\* fetchAllTaxonomiesCategories, which calls getTaxonomies
getHomePageData ==
    /\ op = "none"
    /\ getClientCall \/ getClientMemoizedCall
    /\ op' = "home"
    /\ phase' = "taxonomies"
    /\ outcome' = [NoOutcome EXCEPT !.state = "pending"]
    /\ UNCHANGED <<catPromises, itemPromises, cats, added, logged>>
    /\ PageFrame

\* lines 144-146, called with a client by the page (getStaticPaths)
fetchAllTaxonomiesCategories ==
    /\ op = "none"
    /\ clients > 0
    /\ op' = "categories"
    /\ phase' = "taxonomies"
    /\ outcome' = [NoOutcome EXCEPT !.state = "pending"]
    /\ UNCHANGED <<catPromises, itemPromises, cats, added, logged, clientVars>>
    /\ PageFrame

\* lines 259-262 and 111-117: getImageGridPageData gets the client and calls
\* fetchItemsForCategory
getImageGridPageData ==
    /\ op = "none"
    /\ getClientCall \/ getClientMemoizedCall
    /\ op' = "grid"
    /\ phase' = "grid"
    /\ outcome' = [NoOutcome EXCEPT !.state = "pending"]
    /\ UNCHANGED <<catPromises, itemPromises, cats, added, logged>>
    /\ PageFrame

\* fetchAllTaxonomiesCategories resolves, with undefined (from the catch of
\* line 167) or with the categories.  Its caller is the page, or the callback of
\* lines 229-241: addItemsToCategories(deliveryClient, initialCategories), where
\* categories.forEach (line 183) throws a TypeError on undefined and otherwise
\* a fetch is started for each category.
CategoriesFetched(undefined, categories) ==
    IF op = "categories"
    THEN /\ outcome' = IF undefined THEN ResolvedUndefined
                       ELSE Resolved([outcome EXCEPT !.categories = categories])
         /\ phase' = "settled"
         /\ UNCHANGED <<itemPromises, cats>>
    ELSE IF undefined
         THEN /\ outcome' = RejectedOutcome
              /\ phase' = "settled"
              /\ UNCHANGED <<itemPromises, cats>>
         ELSE /\ cats' = categories
              /\ itemPromises' = [i \in DOMAIN categories |-> PendingItems]
              /\ phase' = "items"
              /\ UNCHANGED outcome

\* lines 147-165: getTaxonomies resolved with n taxonomies; a category query is
\* started for each
TaxonomiesResolve(n) ==
    /\ phase = "taxonomies"
    /\ catPromises' = [t \in 1..n |-> PendingCategories]
    /\ phase' = "categories"
    /\ UNCHANGED <<op, itemPromises, cats, added, outcome, logged, clientVars>>
    /\ PageFrame

\* getTaxonomies rejected: the catch of line 167 logs
TaxonomiesReject ==
    /\ phase = "taxonomies"
    /\ logged' = logged + 1
    /\ CategoriesFetched(TRUE, <<>>)
    /\ UNCHANGED <<op, catPromises, added, clientVars>>
    /\ PageFrame

\* lines 134 and 157: the query for taxonomy t resolved with n categories
CategoriesResolve(t, n) ==
    /\ phase = "categories"
    /\ t \in DOMAIN catPromises
    /\ catPromises[t].state = "pending"
    /\ Len(flattenArray([u \in DOMAIN catPromises |-> catPromises[u].value])) + n
          <= MaxCategories
    /\ catPromises' = [catPromises EXCEPT ![t] =
           [state |-> "fulfilled",
            order |-> 1 + Cardinality({u \in DOMAIN catPromises :
                                         catPromises[u].state = "fulfilled"}),
            value |-> [j \in 1..n |-> Category(t, j)]]]
    /\ UNCHANGED <<op, phase, itemPromises, cats, added, outcome, logged,
                   clientVars>>
    /\ PageFrame

\* the query for taxonomy t rejected: the catch of line 135 logs and yields
\* undefined, categoriesTopItem.items (line 157) throws a TypeError, Promise.all
\* rejects, the catch of line 167 logs
CategoriesReject(t) ==
    /\ phase = "categories"
    /\ t \in DOMAIN catPromises
    /\ catPromises[t].state = "pending"
    /\ catPromises' = [catPromises EXCEPT ![t].state = "rejected"]
    /\ logged' = logged + 2
    /\ CategoriesFetched(TRUE, <<>>)
    /\ UNCHANGED <<op, added, clientVars>>
    /\ PageFrame

\* lines 164-165: every query fulfilled, Promise.all resolves; the promises
\* array is not referred to again
CategoriesJoin ==
    /\ phase = "categories"
    /\ AllFulfilled(catPromises)
    /\ CategoriesFetched(FALSE, flattenArray(PromiseAll(catPromises)))
    /\ catPromises' = <<>>
    /\ UNCHANGED <<op, added, logged, clientVars>>
    /\ PageFrame

\* lines 118 and 187-207: the item fetch of the i-th category resolved
ItemsResolve(i, topLevelItem) ==
    /\ phase = "items"
    /\ i \in DOMAIN itemPromises
    /\ itemPromises[i].state = "pending"
    /\ cats' = [cats EXCEPT ![i] = CategoryWithItems(@, topLevelItem)]
    /\ itemPromises' = [itemPromises EXCEPT ![i] =
           [state |-> "fulfilled",
            order |-> 1 + Cardinality({j \in DOMAIN itemPromises :
                                         itemPromises[j].state = "fulfilled"}),
            fetched |-> topLevelItem,
            value |-> cats'[i]]]
    /\ UNCHANGED <<op, phase, catPromises, added, outcome, logged, clientVars>>
    /\ PageFrame

\* the item fetch of the i-th category rejected: the catch of line 119 logs and
\* yields undefined, topLevelItem.items (line 190) throws a TypeError,
\* Promise.all (line 213) rejects and nothing catches it
ItemsReject(i) ==
    /\ phase = "items"
    /\ i \in DOMAIN itemPromises
    /\ itemPromises[i].state = "pending"
    /\ itemPromises' = [itemPromises EXCEPT ![i].state = "rejected"]
    /\ logged' = logged + 1
    /\ outcome' = RejectedOutcome
    /\ phase' = "settled"
    /\ UNCHANGED <<op, catPromises, cats, added, clientVars>>
    /\ PageFrame

\* line 213: every item fetch fulfilled, addItemsToCategories resolves
ItemsJoin ==
    /\ phase = "items"
    /\ AllFulfilled(itemPromises)
    /\ added' = flattenObjects(PromiseAll(itemPromises))
    /\ phase' = "added"
    /\ UNCHANGED <<op, catPromises, itemPromises, cats, outcome, logged,
                   clientVars>>
    /\ PageFrame

\* lines 230-240; the arrays of addItemsToCategories are not referred to again
HomeThen ==
    /\ phase = "added"
    /\ outcome' = Resolved([outcome EXCEPT !.categories =
           [i \in DOMAIN added |->
               [added[i] EXCEPT !.items = WithRenditionUrls(added[i].items)]]])
    /\ phase' = "settled"
    /\ itemPromises' = <<>>
    /\ cats' = <<>>
    /\ added' = <<>>
    /\ UNCHANGED <<op, catPromises, logged, clientVars>>
    /\ PageFrame

\* lines 118 and 263-273: the item fetch of the grid page resolved
GridResolve(topLevelItem) ==
    /\ phase = "grid"
    /\ outcome' = Resolved([outcome EXCEPT
                                !.totalResults = topLevelItem.totalResults,
                                !.items = WithRenditionUrls(topLevelItem.items)])
    /\ phase' = "settled"
    /\ UNCHANGED <<op, catPromises, itemPromises, cats, added, logged,
                   clientVars>>
    /\ PageFrame

\* the item fetch of the grid page rejected: the catch of line 119 logs and
\* yields undefined, the destructuring of line 264 throws a TypeError
GridReject ==
    /\ phase = "grid"
    /\ logged' = logged + 1
    /\ outcome' = RejectedOutcome
    /\ phase' = "settled"
    /\ UNCHANGED <<op, catPromises, itemPromises, cats, added, clientVars>>
    /\ PageFrame

\* the caller has the outcome; the call is over
PageDone ==
    /\ phase = "settled"
    /\ op' = "none"
    /\ phase' = "idle"
    /\ catPromises' = <<>>
    /\ itemPromises' = <<>>
    /\ cats' = <<>>
    /\ added' = <<>>
    /\ outcome' = NoOutcome
    /\ logged' = 0
    /\ UNCHANGED clientVars
    /\ PageFrame

InitPages ==
    /\ variant \in {"auth", "memoized"}
    /\ AUTH = StaticAuth
    /\ CLIENT_ID = Undefined
    /\ IS_BROWSER = FALSE
    /\ NEXT_PUBLIC_SERVER_URL = HttpsBase
    /\ Loaded
    /\ NoImage
    /\ NoPage
    /\ NoGrid

NextPages ==
    \/ getHomePageData
    \/ fetchAllTaxonomiesCategories
    \/ getImageGridPageData
    \/ \E n \in 0..MaxTaxonomies : TaxonomiesResolve(n)
    \/ TaxonomiesReject
    \/ \E t \in 1..MaxTaxonomies, n \in 0..MaxCategories : CategoriesResolve(t, n)
    \/ \E t \in 1..MaxTaxonomies : CategoriesReject(t)
    \/ CategoriesJoin
    \/ \E i \in 1..MaxCategories, a \in ItemsAnswers : ItemsResolve(i, a)
    \/ \E i \in 1..MaxCategories : ItemsReject(i)
    \/ ItemsJoin
    \/ HomeThen
    \/ \E a \in ItemsAnswers : GridResolve(a)
    \/ GridReject
    \/ PageDone

SpecPages == InitPages /\ [][NextPages]_vars

(***************************************************************************)
(* The image grid page, src/pages/category/[id].jsx lines 26-299.  An      *)
(* instance is one ImageGridPage component; the browser shows one page at  *)
(* a time, so at most one instance is mounted.  props.data is what         *)
(* getImageGridPageData resolved with at build time: the items of one      *)
(* request with limit 100 (services.js line 115) and the server's count of *)
(* all matching items.  Only the length of items matters to the page's     *)
(* state; item i of the grid carries data-key i - 1.                       *)
(***************************************************************************)
FetchLimit == 100

\* what the page can be given: no item, one, and the totals around the limit
GridData ==
    {[length |-> IF t < FetchLimit THEN t ELSE FetchLimit, totalResults |-> t] :
        t \in {0, 1} \cup (FetchLimit..MaxTotalResults)}

\* left arrow, right arrow, esc, and a key the page does not handle
KeyCodes == {37, 39, 27, 13}

\* String(n) for n >= 0, as a sequence of characters
RECURSIVE ToDigits(_)
ToDigits(n) == IF n < 10 THEN <<Digit[n + 1]>>
               ELSE Append(ToDigits(n \div 10), Digit[(n % 10) + 1])

DigitValue(ch) == (CHOOSE d \in 1..10 : Digit[d] = ch) - 1

\* parseInt(s, 10) of a sequence of decimal digits
RECURSIVE parseInt(_)
parseInt(s) ==
    IF Len(s) = 1 THEN DigitValue(s[1])
    ELSE 10 * parseInt(SubSeq(s, 1, Len(s) - 1)) + DigitValue(s[Len(s)])

\* the data-key attributes of the grid's images (line 174); clicking white
\* space gives null, which line 70 treats like the empty string
NullAttribute == <<>>
DataKeys == {ToDigits(i) : i \in 0..(data.length - 1)}

\* lines 46-50 and 58-62: the listener list of an event target holds a
\* function once, and removal looks for the very function it is given
addEventListener(list, l) ==
    IF \E k \in 1..Len(list) : list[k].fn = l.fn THEN list ELSE Append(list, l)

removeEventListener(list, l) ==
    LET Other(x) == x.fn # l.fn IN SelectSeq(list, Other)

\* lines 141-298: what render() produces for state.currentImage = c
render(c) ==
    IF data.length = 0 THEN "message"
    ELSE IF c = -1 THEN "grid"
    ELSE IF 0 <= c /\ c < data.length THEN "slideshow"
    ELSE "TypeError"

\* the component's state and the page around it, threaded through handlers
Page == [currentImage |-> currentImage, view |-> view, modalOpen |-> modalOpen]

\* React ignores setState on a component that is not in the tree any more
setState(s, i, c) ==
    IF i \in mounted /\ s.view[i] # "TypeError"
    THEN [s EXCEPT !.currentImage[i] = c, !.view[i] = render(c)]
    ELSE s

\* lines 68-78
handleClick(s, i, imageClicked) ==
    IF imageClicked = NullAttribute THEN s
    ELSE setState([s EXCEPT !.modalOpen = TRUE], i, parseInt(imageClicked))

\* lines 106-122
handlePrevNextClick(s, i, increment) ==
    LET c == s.currentImage[i] IN
    IF (c = 0 /\ ~increment) \/ (c = data.totalResults - 1 /\ increment)
    THEN s
    ELSE setState(s, i, IF increment THEN c + 1 ELSE c - 1)

\* lines 129-136
handleCloseClick(s, i) == setState([s EXCEPT !.modalOpen = FALSE], i, -1)

\* lines 84-100
handleKeypressFunction(s, i, keyCode) ==
    IF s.currentImage[i] = -1 THEN s
    ELSE IF keyCode = 37 THEN handlePrevNextClick(s, i, FALSE)
    ELSE IF keyCode = 39 THEN handlePrevNextClick(s, i, TRUE)
    ELSE IF keyCode = 27 THEN handleCloseClick(s, i)
    ELSE s

\* the document calls its keydown listeners in the order they were added
RECURSIVE Dispatch(_, _, _)
Dispatch(s, list, keyCode) ==
    IF list = <<>> THEN s
    ELSE Dispatch(handleKeypressFunction(s, Head(list).self, keyCode),
                  Tail(list), keyCode)

Commit(s) ==
    /\ currentImage' = s.currentImage
    /\ view' = s.view
    /\ modalOpen' = s.modalOpen

GridFrame == UNCHANGED <<envVars, now, cacheVars, tokenRequests, slotVars,
                         clientVars, proxyVars, imageVars, pageVars, data>>

\* lines 36-51: a new instance is constructed, rendered and mounted; line 48
\* creates the function it registers
componentDidMount(i) ==
    /\ i = instances + 1
    /\ i <= MaxMounts
    /\ mounted = {}
    /\ instances' = i
    /\ mounted' = {i}
    /\ currentImage' = [currentImage EXCEPT ![i] = -1]
    /\ view' = [view EXCEPT ![i] = render(-1)]
    /\ functions' = functions + 1
    /\ keydown' = addEventListener(keydown, [fn |-> functions + 1, self |-> i])
    /\ UNCHANGED modalOpen
    /\ GridFrame

\* lines 57-63: line 60 creates the function it asks the document to remove
componentWillUnmount(i) ==
    /\ i \in mounted
    /\ mounted' = mounted \ {i}
    /\ view' = [view EXCEPT ![i] = "none"]
    /\ functions' = functions + 1
    /\ keydown' = removeEventListener(keydown, [fn |-> functions + 1, self |-> i])
    /\ UNCHANGED <<instances, currentImage, modalOpen>>
    /\ GridFrame

\* line 223: a click inside the grid
GridClick(i, imageClicked) ==
    /\ i \in mounted
    /\ view[i] \in {"grid", "slideshow"}
    /\ Commit(handleClick(Page, i, imageClicked))
    /\ UNCHANGED <<instances, mounted, keydown, functions>>
    /\ GridFrame

\* lines 264-282: a click, or a key pressed, on the prev or next button
PrevNextClick(i, increment) ==
    /\ i \in mounted
    /\ view[i] = "slideshow"
    /\ Commit(handlePrevNextClick(Page, i, increment))
    /\ UNCHANGED <<instances, mounted, keydown, functions>>
    /\ GridFrame

\* lines 284-292: a click, or a key pressed, on the close button
CloseClick(i) ==
    /\ i \in mounted
    /\ view[i] = "slideshow"
    /\ Commit(handleCloseClick(Page, i))
    /\ UNCHANGED <<instances, mounted, keydown, functions>>
    /\ GridFrame

\* a key is pressed anywhere in the document
KeyDown(keyCode) ==
    /\ keydown # <<>>
    /\ Commit(Dispatch(Page, keydown, keyCode))
    /\ UNCHANGED <<instances, mounted, keydown, functions>>
    /\ GridFrame

InitGrid ==
    /\ variant = "memoized"
    /\ AUTH = Undefined
    /\ CLIENT_ID = Undefined
    /\ IS_BROWSER = TRUE
    /\ NEXT_PUBLIC_SERVER_URL = HttpsBase
    /\ Loaded
    /\ NoImage
    /\ NoPage
    /\ data \in GridData
    /\ instances = 0
    /\ mounted = {}
    /\ currentImage = [i \in 1..MaxMounts |-> -1]
    /\ view = [i \in 1..MaxMounts |-> "none"]
    /\ keydown = <<>>
    /\ functions = 0
    /\ modalOpen = FALSE

NextGrid ==
    \/ \E i \in 1..MaxMounts : componentDidMount(i)
    \/ \E i \in 1..MaxMounts : componentWillUnmount(i)
    \/ \E i \in 1..MaxMounts, k \in DataKeys \cup {NullAttribute} : GridClick(i, k)
    \/ \E i \in 1..MaxMounts, increment \in BOOLEAN : PrevNextClick(i, increment)
    \/ \E i \in 1..MaxMounts : CloseClick(i)
    \/ \E keyCode \in KeyCodes : KeyDown(keyCode)

SpecGrid == InitGrid /\ [][NextGrid]_vars

(***************************************************************************)
(* The pages and the proxy route together: the pages put the URLs that     *)
(* getSourceSet computed into src and srcSet ([id].jsx lines 162-172 and   *)
(* 236-246), and the browser requests them.  A URL that begins with /api/  *)
(* is a request to this application's API routes, where handler runs.  Any *)
(* other relative URL is a request to this application that no API route   *)
(* answers; an absolute URL is a request to another server, which the      *)
(* model leaves out.                                                       *)
(***************************************************************************)
RenderedUrls ==
    {urls.srcset[k].url : k \in DOMAIN urls.srcset}
    \cup {urls.jpgSrcset[k].url : k \in DOMAIN urls.jpgSrcset}
    \cup {urls.named[n] : n \in DOMAIN urls.named}

\* the browser requests the image at r from this application
ImageRequest(c, r) ==
    /\ urls.computed
    /\ StartsWith(r, <<"/">>)
    /\ Cardinality({d \in Slots : pc[d] # "idle"}) < MaxStreams
    /\ IF StartsWith(r, <<"/", "a", "p", "i", "/">>)
       THEN handler(c, "GET", r)
       ELSE /\ pc[c] = "idle"
            /\ \A d \in Slots : d < c => pc[d] # "idle"
            /\ pc' = [pc EXCEPT ![c] = "unrouted"]
            /\ origin' = [origin EXCEPT ![c] = "browser"]
            /\ method' = [method EXCEPT ![c] = "GET"]
            /\ url' = [url EXCEPT ![c] = r]
            /\ UNCHANGED <<envVars, gridVars, imageVars, pageVars, now, cacheVars,
                           tokenRequests, reqId, response, result, entry,
                           authorization, clientVars, outbound, upstream, res>>

InitBrowse ==
    /\ variant = "auth"
    /\ AUTH = StaticAuth
    /\ CLIENT_ID = Undefined
    /\ IS_BROWSER = FALSE
    /\ NEXT_PUBLIC_SERVER_URL \in ServerUrlChoices
    /\ Loaded
    /\ asset \in AssetChoices
    /\ urls = NoUrls
    /\ NoPage
    /\ NoGrid

NextBrowse ==
    \/ getSourceSet
    \/ \E a \in AssetChoices : NextAsset(a)
    \/ \E c \in Slots, r \in RenderedUrls : ImageRequest(c, r)
    \/ \E c \in Slots : HandlerThen(c)
    \/ \E c \in Slots : writeProxyContent(c, PlainResponse)
    \/ \E c \in Slots : PipeData(c)
    \/ \E c \in Slots : PipeEnd(c)
    \/ \E c \in Slots : ProxyError(c)
    \/ \E c \in Slots : Release(c)

SpecBrowse == InitBrowse /\ [][NextBrowse]_vars


(***************************************************************************)
(* Vocabulary of the properties.                                           *)
(***************************************************************************)
\* the process resolves its credential through the OAuth token cache
OAuthMode == variant = "auth" /\ AuthBranch = "oauth"

\* this step begins a getAuthValue invocation in slot c
Starts(c) == pc[c] = "idle" /\ pc'[c] \in {"fetch", "returned"}

InFlight(c) == pc[c] \in {"fetch", "json"}

\* a credential is cached and the clock is more than 5 seconds before its expiry
CachedAndFresh ==
    /\ Truthy(globalAuthValue)
    /\ DateTruthy(globalAuthExpiry) /\ ~globalAuthExpiry.nan
    /\ now < globalAuthExpiry.ms - FIVE_SECONDS_MS

\* no credential is cached, or the clock is within 5 seconds of the cached
\* expiry or past it
MissingOrExpiring ==
    \/ ~Truthy(globalAuthValue)
    \/ ~DateTruthy(globalAuthExpiry)
    \/ ~globalAuthExpiry.nan /\ now >= globalAuthExpiry.ms - FIVE_SECONDS_MS

\* no other refresh overlapped the refresh of slot c: none was in flight when it
\* began and none has begun since
Unoverlapped(c) == entry[c].solo /\ reqId[c] = tokenRequests

\* this step ends the refresh of slot c, which has failed: the token request
\* was rejected, or answered with a status outside 2xx, or with a body that
\* is not JSON
FailedRefreshEnds(c) ==
    \/ pc[c] = "fetch" /\ pc'[c] \notin {"fetch", "json"}
    \/ /\ pc[c] = "json" /\ pc'[c] # "json"
       /\ response[c].status \notin 200..299 \/ response[c].body = "notJson"

(***************************************************************************)
(* C1.  In OAuth mode, a getAuthValue call made while a credential is      *)
(* cached and the clock is more than 5 seconds before the cached expiry    *)
(* returns the cached credential and makes no token-endpoint request.      *)
(***************************************************************************)
C1_FreshCredentialIsReused ==
    [][\A c \in Slots :
          (Starts(c) /\ OAuthMode /\ CachedAndFresh)
              => /\ pc'[c] = "returned"
                 /\ result'[c] = globalAuthValue
                 /\ tokenRequests' = tokenRequests]_vars

(***************************************************************************)
(* C2.  In OAuth mode, a getAuthValue call made when no credential is      *)
(* cached, or within 5 seconds of the cached expiry or past it, makes      *)
(* exactly one token-endpoint request, replaces the cached credential and  *)
(* the cached expiry by the values of that response and returns the new    *)
(* credential.                                                             *)
(***************************************************************************)
C2_ExpiringCredentialIsRefreshed ==
    [][\A c \in Slots :
          /\ (Starts(c) /\ OAuthMode /\ MissingOrExpiring)
                => /\ pc'[c] = "fetch"
                   /\ tokenRequests' = tokenRequests + 1
          /\ (pc[c] = "json" /\ response[c].body = "token" /\ pc'[c] = "returned")
                => /\ globalAuthValue' = "Bearer " \o AccessToken(reqId[c])
                   /\ globalAuthExpiry' = DateOf(now + response[c].expires_in)
                   /\ result'[c] = globalAuthValue'
                   /\ tokenRequests' = tokenRequests]_vars

(***************************************************************************)
(* C3.  When a token refresh fails, the cached credential and the cached   *)
(* expiry are both what they were before the getAuthValue call started     *)
(* (stated for a refresh that no other refresh overlapped, so that no      *)
(* other call wrote the cache meanwhile).                                  *)
(***************************************************************************)
C3_FailedRefreshLeavesCache ==
    [][\A c \in Slots :
          (InFlight(c) /\ pc'[c] = "rejected" /\ Unoverlapped(c))
              => /\ globalAuthValue' = entry[c].value
                 /\ globalAuthExpiry' = entry[c].expiry]_vars

(***************************************************************************)
(* C4.  Every kind of refresh failure (network error, non-2xx response,    *)
(* body that is not JSON) makes getAuthValue fail to its caller, caches    *)
(* nothing from the failed response, and leaves the cache such that the    *)
(* next getAuthValue call attempts a new refresh.                          *)
(***************************************************************************)
C4_FailedRefreshRejects ==
    [][\A c \in Slots :
          FailedRefreshEnds(c)
              => /\ pc'[c] = "rejected"
                 /\ globalAuthValue' = globalAuthValue
                 /\ globalAuthExpiry' = globalAuthExpiry
                 /\ Unoverlapped(c) => NeedsRefresh']_vars

(***************************************************************************)
(* C5.  TokenState invariant: in every state, if the cached expiry is set  *)
(* then the cached credential is non-empty.                                *)
(***************************************************************************)
C5_ExpirySetImpliesCredential ==
    DateTruthy(globalAuthExpiry) => Truthy(globalAuthValue)

(***************************************************************************)
(* C6.  There is no single-flight guard: a getAuthValue call that starts   *)
(* in OAuth mode while another call's token request is in flight and no    *)
(* credential is cached issues a token-endpoint request of its own, so     *)
(* that two requests are made.                                             *)
(***************************************************************************)
C6_OverlappingCallsEachRequest ==
    [][\A c \in Slots :
          (/\ Starts(c) /\ OAuthMode
           /\ \E d \in Slots \ {c} : InFlight(d)
           /\ ~Truthy(globalAuthValue))
              => /\ pc'[c] = "fetch"
                 /\ tokenRequests' = tokenRequests + 1
                 /\ reqId'[c] = tokenRequests'
                 /\ \A d \in Slots \ {c} : InFlight(d) => reqId'[d] # reqId'[c]
                 /\ tokenRequests' >= 2]_vars

\* two refreshes are in flight at once, each with a request of its own
C6_Witness ==
    \E c, d \in Slots :
        /\ c # d /\ InFlight(c) /\ InFlight(d)
        /\ reqId[c] # reqId[d]
        /\ tokenRequests = 2

(***************************************************************************)
(* C7.  When a static AUTH value is configured, every getAuthValue call    *)
(* returns exactly that string and no token-endpoint request is ever made, *)
(* whether or not CLIENT_ID is configured too.                             *)
(***************************************************************************)
C7_StaticAuthNeverFetches ==
    (variant = "auth" /\ Truthy(AUTH))
        => /\ tokenRequests = 0
           /\ \A c \in Slots :
                 /\ ~InFlight(c) /\ pc[c] # "rejected"
                 /\ pc[c] \in {"returned", "sent"} /\ origin[c] \in {"direct", "hook"}
                       => result[c] = AUTH

\* a call has returned the static value although CLIENT_ID is configured too
C7_Witness ==
    /\ variant = "auth" /\ AUTH = StaticAuth /\ CLIENT_ID = ClientId
    /\ \E c \in Slots : pc[c] = "returned" /\ result[c] = StaticAuth

(***************************************************************************)
(* C8.  isAuthNeeded is true if and only if AUTH or CLIENT_ID is           *)
(* configured with a non-empty value; when neither is, every getAuthValue  *)
(* call returns null and no token-endpoint request is ever made.           *)
(***************************************************************************)
C8_NoAuthConfigured ==
    /\ isAuthNeeded <=> (AUTH \notin {Undefined, ""} \/ CLIENT_ID \notin {Undefined, ""})
    /\ (variant = "auth" /\ AUTH \in {Undefined, ""} /\ CLIENT_ID \in {Undefined, ""})
          => /\ tokenRequests = 0
             /\ \A c \in Slots :
                   /\ ~InFlight(c) /\ pc[c] # "rejected"
                   /\ pc[c] = "returned" => result[c] = JsNull

\* with AUTH set to the empty string and no CLIENT_ID, two calls have returned
C8_Witness ==
    /\ variant = "auth" /\ AUTH = "" /\ CLIENT_ID = Undefined
    /\ \A c \in Slots : pc[c] = "returned" /\ result[c] = JsNull
    /\ globalAuthValue = JsNull

C10_HeaderResolvedPerRequest ==
    (variant = "auth" /\ isAuthNeeded /\ ~IS_BROWSER)
        => /\ ClientConfig.beforeSend
           /\ \A c \in Slots :
                 /\ origin[c] # "plain"
                 /\ pc[c] = "sent"
                       => /\ origin[c] = "hook"
                          /\ result[c] # Undefined
                          /\ authorization[c] = result[c]

\* two requests were sent through the hook with different credentials, the
\* second one resolved after the first was sent
C10_Witness ==
    /\ variant = "auth" /\ isAuthNeeded /\ ~IS_BROWSER
    /\ \A c \in Slots : pc[c] = "sent" /\ origin[c] = "hook"
    /\ authorization[1] = "Bearer tok1"
    /\ authorization[2] = "Bearer tok2"

(***************************************************************************)
(* C11.  When authentication is required and the context is a browser,     *)
(* the client built by getClient targets this application's own origin,    *)
(* not the upstream server, and has no pre-request hook; no getAuthValue   *)
(* invocation runs in that context, no token request is made, the          *)
(* credential cache stays empty and no request carries an authorization    *)
(* header set by this code.                                                *)
(***************************************************************************)
C11_BrowserClientGoesThroughProxy ==
    (variant = "auth" /\ isAuthNeeded /\ IS_BROWSER)
        => /\ ClientConfig.contentServer = Origin
           /\ ClientConfig.contentServer # ServerUrl
           /\ ~ClientConfig.beforeSend
           /\ tokenRequests = 0
           /\ globalAuthValue = "" /\ globalAuthExpiry = NullDate
           /\ \A c \in Slots :
                 /\ origin[c] \notin {"direct", "hook"}
                 /\ ~InFlight(c)
                 /\ result[c] = Undefined
                 /\ authorization[c] = NoHeader

\* in a browser that needs authorization, two requests have been sent through
\* a client
C11_Witness ==
    /\ variant = "auth" /\ isAuthNeeded /\ IS_BROWSER
    /\ clients > 0
    /\ \A c \in Slots : pc[c] = "sent" /\ origin[c] = "plain"

(***************************************************************************)
(* C17.  A successful refresh that completes at time t with expires_in = n *)
(* (seconds) sets the cached expiry to t + 1000 * n milliseconds.          *)
(***************************************************************************)
C17_ExpiryIsSecondsAfterRefresh ==
    [][\A c \in Slots :
          (pc[c] = "json" /\ response[c].body = "token" /\ pc'[c] = "returned")
              => globalAuthExpiry' = DateOf(now + 1000 * response[c].expires_in)]_vars

(***************************************************************************)
(* C18.  When getAuthValue fails inside the pre-request hook, the promise  *)
(* that beforeSendCallback returned is rejected: it does not stay pending. *)
(***************************************************************************)
C18_HookFailureIsPropagated ==
    \A c \in Slots :
        (origin[c] = "hook" /\ pc[c] = "rejected") => HookPromise(c) = "rejected"

(***************************************************************************)
(* Vocabulary of the proxy route's properties.                             *)
(***************************************************************************)
\* slot c holds a request to the proxy route
Proxied(c) == origin[c] = "handler"

\* a step of the code that serves the request of slot c can still be taken:
\* a promise or a stream it waits for can still settle or deliver
CanProceed(c) ==
    ENABLED (\/ \E r \in Responses : FetchResolve(c, r)
             \/ FetchReject(c)
             \/ JsonReject(c)
             \/ JsonResolve(c)
             \/ HandlerThen(c)
             \/ writeProxyContent(c, PlainResponse)
             \/ PipeData(c)
             \/ PipeEnd(c)
             \/ ProxyError(c))

C13_OnlyLeadingPrefixIsStripped ==
    \A c \in Slots :
        (Proxied(c) /\ method[c] = "GET"
         /\ pc[c] \in {"forwarding", "streaming", "done", "failed"})
            => /\ outbound[c].made
               /\ SubSeq(url[c], 1, 4) = <<"/", "a", "p", "i">>
               /\ outbound[c].url
                      = NEXT_PUBLIC_SERVER_URL \o SubSeq(url[c], 5, Len(url[c]))

\* /api/f/api/g was forwarded to https://h/f/api/g and /api/f?u=/api/g could be
C13_Witness ==
    /\ NEXT_PUBLIC_SERVER_URL = HttpsBase
    /\ pc[1] = "forwarding" /\ method[1] = "GET"
    /\ url[1] = <<"/", "a", "p", "i", "/", "f", "/", "a", "p", "i", "/", "g">>
    /\ outbound[1].url = <<"h", "t", "t", "p", "s", ":", "/", "/", "h",
                           "/", "f", "/", "a", "p", "i", "/", "g">>

(***************************************************************************)
(* C14.  For every proxied GET request, what is written to the response is *)
(* the upstream response: its status code and its headers as received,     *)
(* then the chunks of its body in order, none lost, repeated or changed;   *)
(* the response is ended when, and only when, the whole upstream body has  *)
(* been written.  Nothing is written before the upstream server answers.   *)
(***************************************************************************)
C14_ResponseRelayedVerbatim ==
    \A c \in Slots :
        Proxied(c)
            => /\ pc[c] \in {"streaming", "done"}
                     => /\ res[c].headWritten
                        /\ res[c].statusCode = upstream[c].statusCode
                        /\ res[c].headers = upstream[c].headers
                        /\ Len(res[c].body) <= Len(upstream[c].body)
                        /\ res[c].body = SubSeq(upstream[c].body, 1, Len(res[c].body))
               /\ pc[c] = "streaming" => ~res[c].ended
               /\ pc[c] = "done" => res[c].ended /\ res[c].body = upstream[c].body
               /\ pc[c] \notin {"streaming", "done"} => res[c] = NoRes

\* a 404 answer with the two-chunk body b2, b1 has been relayed and ended
C14_Witness ==
    /\ pc[1] = "done" /\ method[1] = "GET"
    /\ upstream[1] = [statusCode |-> 404, headers |-> ErrorHeaders,
                      body |-> <<"b2", "b1">>]
    /\ res[1] = [headWritten |-> TRUE, statusCode |-> 404,
                 headers |-> ErrorHeaders, body |-> <<"b2", "b1">>,
                 ended |-> TRUE]

(***************************************************************************)
(* C19.  No GET request is left without a response: as long as the         *)
(* response of a GET request is not written and ended, some step of the    *)
(* code serving it can still be taken, also after the credential           *)
(* resolution has failed or the upstream request has emitted an error.     *)
(***************************************************************************)
C19_EveryGetIsAnswered ==
    \A c \in Slots :
        (Proxied(c) /\ method[c] = "GET")
            => \/ pc[c] = "done" /\ res[c].ended
               \/ CanProceed(c)

(***************************************************************************)
(* C20.  When authorization is needed, every image URL that getSourceSet   *)
(* produces (each rendition URL, every entry of srcset and of jpgSrcset,   *)
(* and the native URL) starts with /api, the proxy route of this           *)
(* application, and does not start with the content server's URL.          *)
(***************************************************************************)
C20_EveryImageUrlIsProxied ==
    LET ThroughProxy(u) == /\ StartsWith(u, <<"/", "a", "p", "i">>)
                           /\ ~StartsWith(u, UpstreamRoot)
    IN (isAuthNeeded /\ urls.computed)
          => /\ \A n \in DOMAIN urls.named : ThroughProxy(urls.named[n])
             /\ \A i \in DOMAIN urls.srcset : ThroughProxy(urls.srcset[i].url)
             /\ \A i \in DOMAIN urls.jpgSrcset : ThroughProxy(urls.jpgSrcset[i].url)
             /\ ThroughProxy(urls.native)

(***************************************************************************)
(* C15.  addItemsToCategories over N categories, whose N item fetches      *)
(* complete in any order, resolves to a list of exactly N categories in    *)
(* the order of the input, the i-th one being the i-th input category with *)
(* the items and the totalResults that the fetch issued for it returned.   *)
(***************************************************************************)
C15_ResultsInInputOrder ==
    phase = "added"
        => /\ Len(added) = Len(cats)
           /\ Len(added) = Len(itemPromises)
           /\ \A i \in DOMAIN added :
                 /\ added[i].id = cats[i].id
                 /\ added[i].hasItems
                 /\ added[i].items = itemPromises[i].fetched.items
                 /\ added[i].totalResults = itemPromises[i].fetched.totalResults

\* three categories; the fetch of the third completed first and the fetch of
\* the first completed last, with different answers
C15_Witness ==
    /\ phase = "added"
    /\ Len(added) = 3
    /\ itemPromises[3].order = 1 /\ itemPromises[1].order = 3
    /\ itemPromises[1].fetched # itemPromises[3].fetched
    /\ added[1].totalResults = 9 /\ added[3].totalResults = 1

(***************************************************************************)
(* C16.  A failure of a list fetch (getTaxonomies,                         *)
(* queryTaxonomyCategories or getItems) never makes the promise of         *)
(* getHomePageData, fetchAllTaxonomiesCategories or getImageGridPageData   *)
(* reject: the failure is logged and the promise resolves.                 *)
(***************************************************************************)
C16_FetchFailureNeverRejects ==
    /\ outcome.state # "rejected"
    /\ (phase = "settled" /\ outcome.undefined) => logged > 0


(***************************************************************************)
(* The image grid page.                                                    *)
(***************************************************************************)
\* C21: after any sequence of mounts and unmounts of ImageGridPage, the
\* document has as many of its keydown listeners as there are mounted
\* instances; in particular none once the page has unmounted.
C21_ListenersMatchMountedInstances == Len(keydown) = Cardinality(mounted)

\* C22: whatever was clicked and pressed, currentImage of the page on
\* display is -1 or an index of an item that was loaded, and render found
\* items[currentImage]; also when totalResults is more than the items
\* fetched.
C22_CurrentImageIsValidIndex ==
    \A i \in mounted :
        /\ currentImage[i] = -1
           \/ (0 <= currentImage[i] /\ currentImage[i] < data.length)
        /\ view[i] # "TypeError"


(***************************************************************************)
(* getImageUrl and the proxy route together.                               *)
(***************************************************************************)
Range(q) == {q[k] : k \in DOMAIN q}

\* the links of the asset that getSourceSet hands to getImageUrl
SelfHrefs ==
    UNION {UNION {{l.href : l \in {x \in Range(f.links) : x.rel = "self"}} :
                     f \in Range(r.formats)} :
              r \in Range(asset.renditions)}

\* the request of slot c has gone as far as this application takes it
Routed(c) == pc[c] \in {"forwarding", "streaming", "done", "failed", "unrouted"}

\* C23: with authorization needed, for every image URL u that begins with
\* the configured server URL, with or without a trailing slash, a request
\* for getImageUrl(u) makes the proxy handler forward to exactly u.
C23_ProxiedImageUrlRoundTrips ==
    \A c \in Slots, u \in SelfHrefs :
        ( /\ isAuthNeeded
          /\ StartsWith(u, NEXT_PUBLIC_SERVER_URL)
          /\ urls.computed
          /\ url[c] = getImageUrl(u)
          /\ Routed(c) )
        => outbound[c].made /\ outbound[c].url = u


(***************************************************************************)
(* Overlapping refreshes that all succeed.                                 *)
(***************************************************************************)
\* the credentials the token endpoint has issued so far
IssuedCredentials == {"Bearer " \o AccessToken(k) : k \in 1..tokenRequests}

\* this step completes the refresh of slot c
Completes(c) == pc[c] = "json" /\ pc'[c] = "returned"

\* C24: when every token request is answered with a token, however the
\* refreshes overlap: a refresh that completes writes the credential and
\* the expiry of its own token response to the cache and returns that
\* credential; nothing else writes an expiry or a credential other than the
\* placeholder; so once no refresh is in flight the cache holds the
\* credential and the expiry of the response that completed last; and every
\* caller is returned a credential the endpoint issued, never the empty
\* placeholder.
C24_OverlappingRefreshesAgree ==
    [][/\ \A c \in Slots :
             Completes(c) =>
                /\ globalAuthValue' = "Bearer " \o AccessToken(reqId[c])
                /\ globalAuthExpiry' = DateOf(now + response[c].expires_in)
                /\ result'[c] = globalAuthValue'
       /\ (\A c \in Slots : ~Completes(c)) =>
                /\ globalAuthExpiry' = globalAuthExpiry
                /\ globalAuthValue' \in {globalAuthValue, RefreshPlaceholder}
       /\ \A c \in Slots :
             pc'[c] = "returned" =>
                /\ result'[c] # RefreshPlaceholder
                /\ result'[c] \in IssuedCredentials'
       /\ ((\A d \in Slots : ~InFlight(d)') /\ tokenRequests' > 0) =>
                /\ globalAuthValue' \in IssuedCredentials'
                /\ DateTruthy(globalAuthExpiry') /\ ~globalAuthExpiry'.nan
      ]_vars

\* two refreshes overlapped and the one that began first completed last:
\* both callers have their own credential and the cache holds the first's
C24_Witness ==
    \E c, d \in Slots :
        /\ pc[c] = "returned" /\ pc[d] = "returned"
        /\ result[c] = "Bearer " \o AccessToken(1)
        /\ result[d] = "Bearer " \o AccessToken(2)
        /\ globalAuthValue = result[c]
        /\ \A x \in Slots : ~InFlight(x)

=============================================================================
